---------------------------- MODULE Spec2Model ----------------------------
(***************************************************************************)
(* Model of the tabular-definition-to-enum generator:                      *)
(*   src/scripts/extract_enums.py  (parse_enums, parse_type,               *)
(*                                  to_camel_case, build_rust_enums)       *)
(*   src/tools/csv2enum.py         (snake_to_camel)                        *)
(*                                                                         *)
(* Strings are tuples of one-character strings (<<"a","_","b">> is         *)
(* "a_b"); Python's None is the tuple <<"None">>, which no string of the   *)
(* model equals because every character is one character long.  Numeric    *)
(* cell values are written as their decimal text.                          *)
(***************************************************************************)
EXTENDS Integers, Sequences, FiniteSets, TLC

VARIABLES rows, pos, pc, type_name, base_type, mapping,
          next_type_name, next_base_type, enums, rust_enums, exception,
          reads, label, camel, snake

vars == <<rows, pos, pc, type_name, base_type, mapping,
          next_type_name, next_base_type, enums, rust_enums, exception,
          reads, label, camel, snake>>

(***************************************************************************)
(* Bounds of the model.                                                    *)
(***************************************************************************)
\* number of rows of the sheet after the header row
MaxRows == 3
\* length of the labels handed to to_camel_case in SpecCamel
MaxLabelLen == 3

(***************************************************************************)
(* Values.                                                                 *)
(***************************************************************************)
None == <<"None">>

LowerLetters == <<"a","b","c","d","e","f","g","h","i","j","k","l","m",
                  "n","o","p","q","r","s","t","u","v","w","x","y","z">>
UpperLetters == <<"A","B","C","D","E","F","G","H","I","J","K","L","M",
                  "N","O","P","Q","R","S","T","U","V","W","X","Y","Z">>
Digits == {"0","1","2","3","4","5","6","7","8","9"}

\* str.isdigit() on one character
isdigit(c) == c \in Digits

\* str.lower() on one character
lower_char(c) ==
    IF \E i \in 1..Len(UpperLetters) : UpperLetters[i] = c
    THEN LowerLetters[CHOOSE i \in 1..Len(UpperLetters) : UpperLetters[i] = c]
    ELSE c

\* str.upper() on one character
upper_char(c) ==
    IF \E i \in 1..Len(LowerLetters) : LowerLetters[i] = c
    THEN UpperLetters[CHOOSE i \in 1..Len(LowerLetters) : LowerLetters[i] = c]
    ELSE c

\* str.lower()
lower(s) == [i \in 1..Len(s) |-> lower_char(s[i])]

\* str.capitalize(): first character upper-cased, the rest lower-cased
capitalize(w) ==
    IF Len(w) = 0 THEN w
    ELSE <<upper_char(w[1])>> \o [i \in 1..(Len(w) - 1) |-> lower_char(w[i + 1])]

\* str.split(sep): the words between the separators, empty words included
RECURSIVE split(_, _)
split(s, sep) ==
    IF \A i \in 1..Len(s) : s[i] # sep
    THEN <<s>>
    ELSE LET k == CHOOSE i \in 1..Len(s) :
                      /\ s[i] = sep
                      /\ \A j \in 1..(i - 1) : s[j] # sep
         IN  <<SubSeq(s, 1, k - 1)>> \o split(SubSeq(s, k + 1, Len(s)), sep)

\* "".join(words)
RECURSIVE join(_)
join(words) ==
    IF Len(words) = 0 THEN <<>> ELSE Head(words) \o join(Tail(words))

(***************************************************************************)
(* to_camel_case.  A call either returns a string or raises.               *)
(***************************************************************************)
Return(v) == [err |-> "none", val |-> v]
Raise(e)  == [err |-> e, val |-> None]

\* the mutant: only the first leading digit is stripped
strip_one_digit(string) ==
    IF Len(string) = 0 THEN Raise("IndexError")
    ELSE LET s == IF isdigit(string[1]) THEN Tail(string) ELSE string
         IN  IF Len(s) = 0 THEN Return(s)
             ELSE Return(join([i \in 1..Len(split(lower(s), "_")) |->
                                 capitalize(split(lower(s), "_")[i])]))

\* lines 63-69: the while loop, then the return
RECURSIVE strip_and_join(_)
strip_and_join(string) ==
    IF Len(string) = 0 THEN Raise("IndexError")
    ELSE IF isdigit(string[1]) THEN strip_and_join(Tail(string))
    ELSE IF Len(string) = 0 THEN Return(string)
    ELSE Return(join([i \in 1..Len(split(lower(string), "_")) |->
                        capitalize(split(lower(string), "_")[i])]))

to_camel_case(string) ==
    IF string = None THEN Raise("TypeError")
    ELSE IF Len(string) = 0 THEN Return(string)
    ELSE strip_and_join(string)

(***************************************************************************)
(* The sheet "Types": rows of cells (parse_row_columns keeps the first     *)
(* four cells of a row).                                                   *)
(***************************************************************************)
Row(t, b, n, v) == [type_name |-> t, base_type |-> b, value_name |-> n, value |-> v]

parse_row_columns(row) ==
    <<row.type_name, row.base_type, row.value_name, row.value>>

T_enum   == <<"e","n","u","m">>
T_uint8  == <<"u","i","n","t","8">>
T_uint8z == <<"u","i","n","t","8","z">>
T_uint16 == <<"u","i","n","t","1","6">>
T_uint32 == <<"u","i","n","t","3","2">>
T_uint32z == <<"u","i","n","t","3","2","z">>
T_string == <<"s","t","r","i","n","g">>

\* the keys of the lookup table
type_mapping_keys == {T_enum, T_uint8, T_uint8z, T_uint16, T_uint32, T_uint32z}

type_mapping(b) ==
    CASE b \in {T_enum, T_uint8, T_uint8z} -> "u8"
      [] b = T_uint16                       -> "u16"
      [] b \in {T_uint32, T_uint32z}        -> "u32"

HeaderRow == Row(<<"T">>, <<"B">>, <<"N">>, <<"V">>)

\* rows announcing a type: both type_name and base_type populated
BoundaryRows ==
    { Row(<<"a">>, T_enum,   <<"z">>, <<"1">>),
      Row(<<"b">>, T_string, None, None),
      Row(<<"_">>, T_uint16, None, None),
      Row(<<"7">>, T_enum,   None, None) }

\* rows with both type cells empty
ValueRows ==
    { Row(None, None, <<"x">>, <<"0">>),
      Row(None, None, <<"y">>, <<"0">>),
      Row(None, None, <<"X">>, <<"1">>),
      Row(None, None, <<>>,    <<"1">>),
      Row(None, None, <<"7">>, <<"1">>) }

\* rows with exactly one of the two type cells populated
MalformedRows ==
    { Row(<<"f">>, None, <<"x">>, <<"1">>),
      Row(None, T_enum, None, <<"0">>) }

RowSet == BoundaryRows \cup ValueRows \cup MalformedRows

\* the raw values a decode function is asked about
RawValues == {<<"0">>, <<"1">>, <<"2">>, <<"3">>}

RECURSIVE SeqsUpTo(_, _)
SeqsUpTo(S, n) ==
    IF n = 0 THEN {<<>>}
    ELSE LET shorter == SeqsUpTo(S, n - 1)
         IN  shorter \cup {Append(q, x) : q \in {r \in shorter : Len(r) = n - 1}, x \in S}

(***************************************************************************)
(* dict: a mapping is the sequence of its (key, value) items in insertion  *)
(* order, each key once.                                                   *)
(***************************************************************************)
dict_keys(m) == {m[i][1] : i \in 1..Len(m)}

\* the mutant: every assignment appends an item
dict_append(m, k, v) == Append(m, <<k, v>>)

\* the mutant: key and value change places, mapping[value_name] = value
dict_set_swapped(m, k, v) ==
    IF v \in dict_keys(m)
    THEN [i \in 1..Len(m) |-> IF m[i][1] = v THEN <<v, k>> ELSE m[i]]
    ELSE Append(m, <<v, k>>)

\* m[k] = v: an existing key keeps its place and takes the new value
dict_set(m, k, v) ==
    IF k \in dict_keys(m)
    THEN [i \in 1..Len(m) |-> IF m[i][1] = k THEN <<k, v>> ELSE m[i]]
    ELSE Append(m, <<k, v>>)

(***************************************************************************)
(* build_rust_enums.  The emitted text is kept as the declarations it      *)
(* holds: the variants of Enums, and per enum its name, its variants, the  *)
(* parameter type of from() and the arms of its match in order.  unknown   *)
(* is the payload of the Unknown variant ("" when it has none).            *)
(***************************************************************************)
NoContent == [umbrella |-> <<>>, decls |-> <<>>]

first_error(results) ==
    IF \A i \in 1..Len(results) : results[i].err = "none"
    THEN "none"
    ELSE results[CHOOSE i \in 1..Len(results) :
                     /\ results[i].err # "none"
                     /\ \A j \in 1..(i - 1) : results[j].err = "none"].err

\* lines 86-88: one variant Name(Name) per element of enums
umbrella_variants(es) == [i \in 1..Len(es) |-> to_camel_case(es[i][1])]

\* lines 100-123: the declaration and the decode function of one enum
emit_enum(e) ==
    LET enum     == to_camel_case(e[1])
        variants == [i \in 1..Len(e[3]) |-> to_camel_case(e[3][i][2])]
    IN  IF enum.err # "none" THEN Raise(enum.err)
        ELSE IF first_error(variants) # "none" THEN Raise(first_error(variants))
        ELSE IF e[2] \notin type_mapping_keys THEN Raise("KeyError")
        ELSE Return([name     |-> enum.val,
                     variants |-> [i \in 1..Len(variants) |-> variants[i].val],
                     unknown  |-> "",
                     param    |-> type_mapping(e[2]),
                     arms     |-> [i \in 1..Len(e[3]) |->
                                      <<e[3][i][1], variants[i].val>>]])

\* lines 96-98: the enums the loop does not skip
emitted(es) == SelectSeq(es, LAMBDA e : Len(e[3]) # 0)

build_rust_enums(es) ==
    LET names == umbrella_variants(es)
        decls == [i \in 1..Len(emitted(es)) |-> emit_enum(emitted(es)[i])]
    IN  IF first_error(names) # "none"
        THEN [err |-> first_error(names), content |-> NoContent]
        ELSE IF first_error(decls) # "none"
        THEN [err |-> first_error(decls), content |-> NoContent]
        ELSE [err |-> "none",
              content |-> [umbrella |-> [i \in 1..Len(names) |-> names[i].val],
                           decls    |-> [i \in 1..Len(decls) |-> decls[i].val]]]

\* what the emitted from() returns: the tag and the payload it carries
Tag(t, payload) == [tag |-> t, payload |-> payload]
Unknown == <<"Unknown">>

\* lines 116-120: the first arm whose key is content, else Unknown
decode(decl, content) ==
    IF \E i \in 1..Len(decl.arms) : decl.arms[i][1] = content
    THEN Tag(decl.arms[CHOOSE i \in 1..Len(decl.arms) :
                           /\ decl.arms[i][1] = content
                           /\ \A j \in 1..(i - 1) : decl.arms[j][1] # content][2],
             None)
    ELSE Tag(Unknown, IF decl.unknown = "" THEN None ELSE content)

(***************************************************************************)
(* The run of the script (lines 128-132): parse_enums, then                *)
(* build_rust_enums.                                                       *)
(***************************************************************************)
\* a function that has not been called yet
NotCalled == [err |-> "notcalled", val |-> <<>>]

Init ==
    /\ rows \in {<<HeaderRow>> \o r : r \in SeqsUpTo(RowSet, MaxRows)}
    /\ pos = 1
    /\ pc = "start"
    /\ type_name = None
    /\ base_type = None
    /\ mapping = <<>>
    /\ next_type_name = None
    /\ next_base_type = None
    /\ enums = <<>>
    /\ rust_enums = NoContent
    /\ exception = "none"
    /\ reads = <<>>
    /\ label = <<>>
    /\ camel = Return(<<>>)
    /\ snake = NotCalled

\* the mutant: a row with either type cell populated announces a type
is_boundary_either(t, b) == t # None \/ b # None

\* line 26
is_boundary(t, b) == t # None /\ b # None

\* lines 42-43: the header row is read and dropped
SkipHeader ==
    /\ pc = "start"
    /\ pos' = pos + 1
    /\ reads' = Append(reads, pos)
    /\ pc' = "first"
    /\ UNCHANGED <<rows, type_name, base_type, mapping, next_type_name,
                   next_base_type, enums, rust_enums, exception, label, camel,
                   snake>>

\* the mutant: the first row is looked at and left for parse_type to read again
ReadFirstRowPeek ==
    /\ pc = "first"
    /\ IF pos > Len(rows)
       THEN /\ pc' = "raised"
            /\ exception' = "StopIteration"
            /\ UNCHANGED <<pos, reads, type_name, base_type>>
       ELSE /\ type_name' = parse_row_columns(rows[pos])[1]
            /\ base_type' = parse_row_columns(rows[pos])[2]
            /\ pos' = pos
            /\ reads' = Append(reads, pos)
            /\ pc' = "parse_type"
            /\ UNCHANGED exception
    /\ UNCHANGED <<rows, mapping, next_type_name, next_base_type, enums,
                   rust_enums, label, camel, snake>>

\* line 45, then the first entry into parse_type (lines 19-21)
ReadFirstRow ==
    /\ pc = "first"
    /\ IF pos > Len(rows)
       THEN /\ pc' = "raised"
            /\ exception' = "StopIteration"
            /\ UNCHANGED <<pos, reads, type_name, base_type>>
       ELSE /\ type_name' = parse_row_columns(rows[pos])[1]
            /\ base_type' = parse_row_columns(rows[pos])[2]
            /\ pos' = pos + 1
            /\ reads' = Append(reads, pos)
            /\ pc' = "parse_type"
            /\ UNCHANGED exception
    /\ UNCHANGED <<rows, mapping, next_type_name, next_base_type, enums,
                   rust_enums, label, camel, snake>>

\* lines 23-33: one turn of the loop of parse_type, or its end
ParseTypeRow ==
    /\ pc = "parse_type"
    /\ IF pos > Len(rows)
       THEN /\ pc' = "append"
            /\ UNCHANGED <<pos, reads, mapping, next_type_name, next_base_type>>
       ELSE LET cells == parse_row_columns(rows[pos])
            IN  /\ pos' = pos + 1
                /\ reads' = Append(reads, pos)
                /\ IF is_boundary(cells[1], cells[2])
                   THEN /\ next_type_name' = cells[1]
                        /\ next_base_type' = cells[2]
                        /\ pc' = "append"
                        /\ UNCHANGED mapping
                   ELSE /\ mapping' = dict_set(mapping, cells[4], cells[3])
                        /\ UNCHANGED <<pc, next_type_name, next_base_type>>
    /\ UNCHANGED <<rows, type_name, base_type, enums, rust_enums, exception,
                   label, camel, snake>>

\* lines 49-55, then the next entry into parse_type (lines 19-21)
AppendEnum ==
    /\ pc = "append"
    /\ enums' = Append(enums, <<type_name, base_type, mapping>>)
    /\ IF next_type_name = None /\ next_base_type = None
       THEN /\ pc' = "build"
            /\ UNCHANGED <<type_name, base_type, mapping, next_type_name,
                           next_base_type>>
       ELSE /\ type_name' = next_type_name
            /\ base_type' = next_base_type
            /\ mapping' = <<>>
            /\ next_type_name' = None
            /\ next_base_type' = None
            /\ pc' = "parse_type"
    /\ UNCHANGED <<rows, pos, reads, rust_enums, exception, label, camel, snake>>

\* lines 130-132
BuildRustEnums ==
    /\ pc = "build"
    /\ LET r == build_rust_enums(enums)
       IN  /\ rust_enums' = r.content
           /\ exception' = r.err
           /\ pc' = IF r.err = "none" THEN "done" ELSE "raised"
    /\ UNCHANGED <<rows, pos, reads, type_name, base_type, mapping,
                   next_type_name, next_base_type, enums, label, camel, snake>>

Next == SkipHeader \/ ReadFirstRow \/ ParseTypeRow \/ AppendEnum \/ BuildRustEnums

Spec == Init /\ [][Next]_vars

\* lines 36-56: the steps of parse_enums and of the parse_type calls in it
ParseEnums == SkipHeader \/ ReadFirstRow \/ ParseTypeRow \/ AppendEnum

\* parse_enums runs in one thread, without waiting, until it returns or raises
SpecFair == Spec /\ WF_vars(ParseEnums)

(***************************************************************************)
(* to_camel_case on its own: every label over Alphabet up to MaxLabelLen   *)
(* characters is handed to it.                                             *)
(***************************************************************************)
Alphabet == {"a", "A", "b", "7", "_", " "}

Whitespace == {" "}

\* str.strip(): leading and trailing whitespace removed
RECURSIVE strip(_)
strip(s) ==
    IF Len(s) = 0 THEN s
    ELSE IF s[1] \in Whitespace THEN strip(Tail(s))
    ELSE IF s[Len(s)] \in Whitespace THEN strip(SubSeq(s, 1, Len(s) - 1))
    ELSE s

\* src/tools/csv2enum.py lines 6-8
snake_to_camel(string) ==
    LET words == SelectSeq(split(lower(strip(string)), "_"), LAMBDA word : Len(word) # 0)
    IN  Return(join([i \in 1..Len(words) |-> capitalize(words[i])]))

InitCamel ==
    /\ label \in SeqsUpTo(Alphabet, MaxLabelLen)
    /\ pc = "camel_call"
    /\ camel = Return(<<>>)
    /\ rows = <<HeaderRow>>
    /\ pos = 1
    /\ type_name = None
    /\ base_type = None
    /\ mapping = <<>>
    /\ next_type_name = None
    /\ next_base_type = None
    /\ enums = <<>>
    /\ rust_enums = NoContent
    /\ exception = "none"
    /\ reads = <<>>
    /\ snake = NotCalled

\* lines 59-69, one call
CallToCamelCase ==
    /\ pc = "camel_call"
    /\ camel' = to_camel_case(label)
    /\ pc' = "camel_returned"
    /\ UNCHANGED <<rows, pos, type_name, base_type, mapping, next_type_name,
                   next_base_type, enums, rust_enums, exception, reads, label,
                   snake>>

\* src/tools/csv2enum.py lines 6-8, one call on the same label
CallSnakeToCamel ==
    /\ pc \in {"camel_call", "camel_returned"}
    /\ snake = NotCalled
    /\ snake' = snake_to_camel(label)
    /\ UNCHANGED <<rows, pos, pc, type_name, base_type, mapping, next_type_name,
                   next_base_type, enums, rust_enums, exception, reads, label,
                   camel>>

NextCamel == CallToCamelCase \/ CallSnakeToCamel

SpecCamel == InitCamel /\ [][NextCamel]_vars

(***************************************************************************)
(* Vocabulary of the properties, stated on the sheet itself.               *)
(***************************************************************************)
\* a cell holds something
Populated(c) == c # None

BothPopulated(row) == Populated(row.type_name) /\ Populated(row.base_type)
OnePopulated(row)  == Populated(row.type_name) # Populated(row.base_type)

\* the places of the rows after the header, in order
DataIdx == [i \in 1..(Len(rows) - 1) |-> i + 1]

\* the places of the rows with both type cells populated
BoundaryIdx == SelectSeq(DataIdx, LAMBDA i : BothPopulated(rows[i]))

\* parse_enums has returned its list
ParseReturned ==
    \/ pc \in {"build", "done"}
    \/ pc = "raised" /\ exception # "StopIteration"

\* the run is over
RunOver == pc \in {"done", "raised"}

FirstIsBoundary == Len(rows) >= 2 /\ BothPopulated(rows[2])

\* the segment a row after the first belongs to: the first row opens
\* segment 1 and every later boundary row opens the next
SegOf(i) == 1 + Cardinality({j \in 3..i : BothPopulated(rows[j])})

\* the places of the value rows of segment k, in order
ValueIdx(k) ==
    SelectSeq(DataIdx, LAMBDA i : i >= 3 /\ ~BothPopulated(rows[i]) /\ SegOf(i) = k)

\* C1: when the first row after the header is a boundary row, parse_enums
\* returns one segment per boundary row, in the order of the boundary rows,
\* each with that row's type_name and base_type; a boundary row followed at
\* once by a boundary row or by the end of the rows has an empty mapping.
C1_OneSegmentPerBoundary ==
    (ParseReturned /\ FirstIsBoundary) =>
        /\ Len(enums) = Len(BoundaryIdx)
        /\ \A k \in 1..Len(enums) :
              /\ enums[k][1] = rows[BoundaryIdx[k]].type_name
              /\ enums[k][2] = rows[BoundaryIdx[k]].base_type
              /\ ( \/ BoundaryIdx[k] = Len(rows)
                   \/ BothPopulated(rows[BoundaryIdx[k] + 1]) )
                 => enums[k][3] = <<>>

\* a boundary row with a value row, then a last boundary row with none
C1_Witness ==
    /\ ParseReturned
    /\ FirstIsBoundary
    /\ Len(BoundaryIdx) = 2
    /\ Len(enums) = 2
    /\ enums[1][3] # <<>>
    /\ enums[2][3] = <<>>
    /\ BoundaryIdx[2] = Len(rows)

\* C2: every value row puts its (value, value_name) under its key in the
\* mapping of the segment of the nearest boundary row before it and in no
\* other; the value cells of a boundary row reach no mapping; with distinct
\* keys the mapping lists the value rows of the segment in row order.
C2_ValueRowsInTheirSegment ==
    (ParseReturned /\ FirstIsBoundary) =>
        /\ Len(enums) = Len(BoundaryIdx)
        /\ \A k \in 1..Len(enums) :
              LET vi == ValueIdx(k)
                  m  == enums[k][3]
              IN  /\ {m[n][1] : n \in 1..Len(m)} = {rows[vi[n]].value : n \in 1..Len(vi)}
                  /\ \A n \in 1..Len(m) :
                        \E j \in 1..Len(vi) :
                            /\ rows[vi[j]].value = m[n][1]
                            /\ rows[vi[j]].value_name = m[n][2]
                  /\ (\A i, j \in 1..Len(vi) :
                          i # j => rows[vi[i]].value # rows[vi[j]].value)
                     => m = [n \in 1..Len(vi) |->
                               <<rows[vi[n]].value, rows[vi[n]].value_name>>]

\* a boundary row whose own value cells are populated, followed by two value
\* rows with different keys
C2_Witness ==
    /\ ParseReturned
    /\ FirstIsBoundary
    /\ Populated(rows[2].value) /\ Populated(rows[2].value_name)
    /\ Len(ValueIdx(1)) = 2
    /\ Len(enums[1][3]) = 2

\* C3: a row with exactly one of type_name / base_type populated makes the
\* run end in an error with no text produced.
C3_MalformedBoundaryAborts ==
    (RunOver /\ \E i \in 2..Len(rows) : OnePopulated(rows[i])) =>
        /\ pc = "raised"
        /\ rust_enums = NoContent

\* C4: a segment whose base_type is no key of type_mapping makes the build
\* fail with no text returned, whatever its mapping holds and wherever it
\* stands.
C4_UnmappedBaseTypeFails ==
    (RunOver /\ \E k \in 1..Len(enums) : enums[k][2] \notin type_mapping_keys) =>
        /\ pc = "raised"
        /\ rust_enums = NoContent

\* the labels build_rust_enums normalizes: the type names and the value names
LabelsOf(es) ==
    {es[k][1] : k \in 1..Len(es)}
        \cup UNION {{es[k][3][n][2] : n \in 1..Len(es[k][3])} : k \in 1..Len(es)}

\* C5: when a type name or a variant label normalizes to the empty string,
\* the run ends in an error with no text produced.
C5_EmptyIdentifierAborts ==
    (RunOver /\ \E l \in LabelsOf(enums) : to_camel_case(l) = Return(<<>>)) =>
        /\ pc = "raised"
        /\ rust_enums = NoContent

AllDigits(l) == Len(l) > 0 /\ \A i \in 1..Len(l) : l[i] \in Digits

\* C6: to_camel_case never raises, and returns the empty string for a label
\* made of decimal digits only.
C6_TotalAndDigitsGiveEmpty ==
    pc = "camel_returned" =>
        /\ camel.err = "none"
        /\ AllDigits(label) => camel.val = <<>>

\* the number of decimal digits a label starts with
LeadingDigits(l) ==
    CHOOSE n \in 0..Len(l) :
        /\ \A i \in 1..n : l[i] \in Digits
        /\ n = Len(l) \/ l[n + 1] \notin Digits

\* the label without its leading digits and without "_", each character that
\* starts a word in upper case and every other one in lower case
Identifier(l) ==
    LET rem  == SubSeq(l, LeadingDigits(l) + 1, Len(l))
        kept == SelectSeq([i \in 1..Len(rem) |-> i], LAMBDA i : rem[i] # "_")
    IN  [n \in 1..Len(kept) |->
            IF kept[n] = 1 \/ rem[kept[n] - 1] = "_"
            THEN upper_char(rem[kept[n]])
            ELSE lower_char(rem[kept[n]])]

\* C7: for a label that is empty or holds a character that is no digit,
\* to_camel_case returns the label without its leading digits, split on "_",
\* each word in lower case with its first character in upper case, joined;
\* "uint8" gives "Uint8", "2_letter_code" gives "LetterCode", "" gives "".
C7_CamelCaseOfLabel ==
    /\ (pc = "camel_returned" /\ ~AllDigits(label)) =>
            camel = Return(Identifier(label))
    /\ to_camel_case(<<"u","i","n","t","8">>) = Return(<<"U","i","n","t","8">>)
    /\ to_camel_case(<<"2","_","l","e","t","t","e","r","_","c","o","d","e">>)
            = Return(<<"L","e","t","t","e","r","C","o","d","e">>)
    /\ to_camel_case(<<>>) = Return(<<>>)

\* a label with leading digits, a "_" and an upper-case character
C7_Witness ==
    /\ pc = "camel_returned"
    /\ label = <<"7", "A", "_">>
    /\ camel = Return(<<"A">>)

\* the declaration emitted for segment k, counted among the emitted ones
DeclOf(k) == Cardinality({j \in 1..k : enums[j][3] # <<>>})

\* the keys several value rows of segment k carry
RepeatedKeys(k) ==
    {rows[i].value : i \in {j \in 3..Len(rows) :
        /\ ~BothPopulated(rows[j])
        /\ SegOf(j) = k
        /\ \E h \in 3..Len(rows) :
              /\ h # j
              /\ ~BothPopulated(rows[h])
              /\ SegOf(h) = k
              /\ rows[h].value = rows[j].value}}

\* the last value row of segment k with this key
LastRowWith(k, key) ==
    CHOOSE i \in 3..Len(rows) :
        /\ ~BothPopulated(rows[i]) /\ SegOf(i) = k /\ rows[i].value = key
        /\ \A j \in (i + 1)..Len(rows) :
              ~(~BothPopulated(rows[j]) /\ SegOf(j) = k /\ rows[j].value = key)

\* C8: a key several value rows of one segment carry has one entry in the
\* mapping, with the value_name of the last of these rows; the run does not
\* fail for it, and the emitted from() has one arm for the key.
C8_LastWriteWins ==
    ParseReturned =>
        \A k \in 1..Len(enums) : \A key \in RepeatedKeys(k) :
            /\ Cardinality({n \in 1..Len(enums[k][3]) : enums[k][3][n][1] = key}) = 1
            /\ \A n \in 1..Len(enums[k][3]) :
                  enums[k][3][n][1] = key =>
                      enums[k][3][n][2] = rows[LastRowWith(k, key)].value_name
            /\ pc = "done" =>
                  LET arms == rust_enums.decls[DeclOf(k)].arms
                  IN  Cardinality({n \in 1..Len(arms) : arms[n][1] = key}) = 1

\* key 0 mapped to "x" and then to "y" ends as "y", and the text is emitted
C8_Witness ==
    /\ pc = "done"
    /\ Len(enums) = 1
    /\ RepeatedKeys(1) = {<<"0">>}
    /\ enums[1][3] = << <<(<<"0">>), (<<"y">>)>> >>
    /\ Len(rust_enums.decls) = 1
    /\ rust_enums.decls[1].arms = << <<(<<"0">>), (<<"Y">>)>> >>

\* the definitions with a non-empty mapping, in order
NonEmpty(es) == SelectSeq(es, LAMBDA e : e[3] # <<>>)

\* C9: for a list of definitions with mapped base types, build_rust_enums
\* emits Enums with one variant per definition in order, empty ones included,
\* and a declaration with its from() for the definitions with a non-empty
\* mapping and no other.
C9_UmbrellaAndDeclarations ==
    ( /\ RunOver
      /\ exception # "StopIteration"
      /\ \A k \in 1..Len(enums) : enums[k][2] \in type_mapping_keys
      /\ \A l \in LabelsOf(enums) : l # None ) =>
        /\ pc = "done"
        /\ Len(rust_enums.umbrella) = Len(enums)
        /\ \A k \in 1..Len(enums) :
              rust_enums.umbrella[k] = to_camel_case(enums[k][1]).val
        /\ Len(rust_enums.decls) = Len(NonEmpty(enums))
        /\ \A d \in 1..Len(rust_enums.decls) :
              rust_enums.decls[d].name = to_camel_case(NonEmpty(enums)[d][1]).val

\* C10: every emitted from() returns the tag of the first arm whose key is
\* the raw value, and for a raw value no arm has, Unknown carrying that raw
\* value, so that two such raw values decode to different results.
C10_DecodeTotalWithRaw ==
    pc = "done" =>
        \A d \in 1..Len(rust_enums.decls) :
            LET decl == rust_enums.decls[d]
                keys == {decl.arms[n][1] : n \in 1..Len(decl.arms)}
            IN  /\ \A raw \in RawValues \ keys :
                      decode(decl, raw) = Tag(Unknown, raw)
                /\ \A raw1, raw2 \in RawValues \ keys :
                      raw1 # raw2 => decode(decl, raw1) # decode(decl, raw2)
                /\ \A raw \in RawValues \cap keys :
                      \E n \in 1..Len(decl.arms) :
                          /\ decl.arms[n][1] = raw
                          /\ \A j \in 1..(n - 1) : decl.arms[j][1] # raw
                          /\ decode(decl, raw) = Tag(decl.arms[n][2], None)

\* C11: in every emitted enum declaration each tag identifier is listed at
\* most once, also when the labels of two keys of the segment normalize to
\* the same identifier.
C11_TagsDeclaredOnce ==
    pc = "done" =>
        \A d \in 1..Len(rust_enums.decls) :
            \A i, j \in 1..Len(rust_enums.decls[d].variants) :
                i # j => rust_enums.decls[d].variants[i] # rust_enums.decls[d].variants[j]

\* the places 1..Len(rows), in order
AllPlaces == [i \in 1..Len(rows) |-> i]

\* C12: for a sheet with a header row and at least one more row, the loop of
\* parse_enums ends; the cursor only moves forward, one row at a time, each
\* row is read once, in order, across parse_enums and the parse_type calls,
\* and parse_enums returns only with the rows exhausted.
C12_SingleForwardCursor ==
    /\ (Len(rows) >= 2) ~> ParseReturned
    /\ [][ /\ pos' \in {pos, pos + 1}
           /\ reads' = IF pos' = pos THEN reads ELSE Append(reads, pos) ]_vars
    /\ [](ParseReturned => (reads = AllPlaces /\ pos = Len(rows) + 1))

\* parse_enums has returned after reads in itself and in two parse_type calls
C12_Witness ==
    /\ ParseReturned
    /\ Len(enums) = 2
    /\ Len(rows) = 4
    /\ reads = <<1, 2, 3, 4>>

\* C13: on every label for which to_camel_case returns, snake_to_camel
\* returns the same identifier; both strip leading decimal digits.
C13_NormalizersAgree ==
    (pc = "camel_returned" /\ camel.err = "none" /\ snake.err = "none") =>
        snake.val = camel.val

=============================================================================
